---- MODULE Spec2Model ----
(***************************************************************************)
(* Library-Management-System backend: the three account views of           *)
(* apps/accounts/views.py (registration, login, profile) as a state        *)
(* machine over the user table and the JWT tokens held by clients, and the *)
(* URL dispatch table of config/urls.py as a resolver over request paths.  *)
(***************************************************************************)
EXTENDS Integers, Sequences, FiniteSets, TLC

(***************************************************************************)
(* Bounds                                                                  *)
(***************************************************************************)
MaxUsers == 2
MaxPathLen == 5
MaxSuffixLen == 1
MaxSwaps == 2

UserIds == 1..MaxUsers
Names == {"alice", "bob"}
Passwords == {"p", "q"}
Absent == "absent"
NoId == {}
Anonymous == [auth |-> "anonymous"]
AuthFailed == [auth |-> "failed"]
NoCred == [kind |-> "none"]
BadCred == [kind |-> "forged"]
NoBody == [kind |-> "none"]
NoData == [username |-> Absent, password |-> Absent]
HttpMethods == {"GET", "POST", "PUT", "PATCH", "DELETE"}
BodyMethods == {"POST", "PUT", "PATCH"}

VARIABLES users, tokens, request, response, path, order, swaps, resolved

accountVars == <<users, tokens, request, response>>

routeVars == <<path, order, swaps, resolved>>

vars == <<users, tokens, request, response, path, order, swaps, resolved>>

(***************************************************************************)
(* Requests                                                                *)
(***************************************************************************)
AccessToken(u) == [kind |-> "access", user |-> u]

RefreshToken(u) == [kind |-> "refresh", user |-> u]

\* What a client can put in the Authorization header: nothing, an access
\* token a login has handed out, or anything else (a made-up, expired or
\* refresh token), which no authenticator accepts.
Credentials == {NoCred, BadCred} \cup tokens

Payloads == [username : Names \cup {Absent}, password : Passwords \cup {Absent}]

PayloadsOf(method) == IF method \in BodyMethods THEN Payloads ELSE {NoData}

\* pk is the set of record ids a request names in its URL, query string or
\* payload: none or one.
Request(view, method, cred, pk, data) ==
    [view |-> view, method |-> method, cred |-> cred, pk |-> pk, data |-> data]

(***************************************************************************)
(* The user table                                                          *)
(***************************************************************************)
Ids == DOMAIN users

NextId == IF Ids = {} THEN 1 ELSE 1 + CHOOSE m \in Ids : \A i \in Ids : i <= m

UserBody(u) ==
    [kind |-> "user", id |-> u, username |-> users[u].username]

TokenPairBody(u) ==
    [kind |-> "tokens", access |-> AccessToken(u), refresh |-> RefreshToken(u)]

(***************************************************************************)
(* Authentication and permissions                                          *)
(***************************************************************************)
\* The authenticated identity of a credential: the user of a valid access
\* token, Anonymous without credentials, AuthFailed for anything else.
Authenticate(cred) ==
    CASE cred.kind = "none" -> Anonymous
      [] cred.kind = "access" /\ cred \in tokens /\ cred.user \in Ids -> [auth |-> "user", id |-> cred.user]
      [] OTHER -> AuthFailed

AllowAny(user) == TRUE

IsAuthenticated(user) == user.auth = "user"

\* A view whose permission_classes let everyone in.
PermissionLeftOpen(user) == AllowAny(user)

\* A view left with the project default instead of AllowAny.
DefaultPermission(user) == IsAuthenticated(user)

UserRegistrationView_permission(user) == AllowAny(user)

UserLoginView_permission(user) == AllowAny(user)

UserProfileView_permission(user) == IsAuthenticated(user)

\* RetrieveUpdateDestroyAPIView binds delete as well.
RetrieveUpdateDestroy_methods == {"GET", "PUT", "PATCH", "DELETE"}

\* CreateAPIView binds post only.
UserRegistrationView_methods == {"POST"}

\* TokenObtainPairView binds post only.
UserLoginView_methods == {"POST"}

\* RetrieveUpdateAPIView binds get, put and patch.
UserProfileView_methods == {"GET", "PUT", "PATCH"}

\* The login view inherits an empty list of authentication classes: the
\* credentials of the request are not looked at.
UserLoginView_authenticate(cred) == Anonymous

\* The generic lookup the view overrides: the record the URL names, out of
\* User.objects.all().
get_object_by_pk(req, user) ==
    IF req.pk = NoId THEN user
    ELSE [auth |-> "user", id |-> CHOOSE i \in req.pk : TRUE]

get_object(req, user) == user

(***************************************************************************)
(* UserSerializer                                                          *)
(***************************************************************************)
NameTaken(name, except) ==
    \E i \in Ids \ except : users[i].username = name

\* is_valid() of a create or a full update: both fields, a free username.
SerializerValid(data, instance) ==
    /\ data.username # Absent
    /\ data.password # Absent
    /\ ~NameTaken(data.username, instance)

\* is_valid() of a partial update: the fields present, a free username.
SerializerValidPartial(data, instance) ==
    data.username # Absent => ~NameTaken(data.username, instance)

Saved(old, data) ==
    [username |-> IF data.username = Absent THEN old.username ELSE data.username,
     password |-> IF data.password = Absent THEN old.password ELSE data.password]

\* A serializer class that accepts whatever it is given.
AcceptAll(method, data, instance) == TRUE

\* serializer_class = UserSerializer on the registration view: create.
UserRegistrationView_is_valid(method, data, instance) ==
    SerializerValid(data, instance)

\* serializer_class = UserSerializer on the profile view: put is a full
\* update, patch a partial one.
UserProfileView_is_valid(method, data, instance) ==
    IF method = "PATCH" THEN SerializerValidPartial(data, instance)
    ELSE SerializerValid(data, instance)

(***************************************************************************)
(* The views                                                               *)
(***************************************************************************)
Reply(status, body) == [status |-> status, body |-> body]

\* POST api/auth/<registration>: CreateAPIView over User.objects.all().
Register(req) ==
    LET user == Authenticate(req.cred) IN
    /\ request' = req
    /\ UNCHANGED tokens
    /\ IF user = AuthFailed \/ ~UserRegistrationView_permission(user)
       THEN response' = Reply(401, NoBody) /\ UNCHANGED users
       ELSE IF req.method \notin UserRegistrationView_methods
       THEN response' = Reply(405, NoBody) /\ UNCHANGED users
       ELSE IF ~UserRegistrationView_is_valid(req.method, req.data, NoId)
       THEN response' = Reply(400, NoBody) /\ UNCHANGED users
       ELSE /\ users' = [i \in Ids \cup {NextId} |->
                           IF i = NextId THEN Saved(req.data, req.data) ELSE users[i]]
            /\ response' = Reply(201, [kind |-> "user", id |-> NextId,
                                       username |-> req.data.username])

\* POST api/auth/<login>: TokenObtainPairView.
Login(req) ==
    LET user == UserLoginView_authenticate(req.cred)
        match == {i \in Ids : /\ users[i].username = req.data.username
                              /\ users[i].password = req.data.password}
    IN
    /\ request' = req
    /\ UNCHANGED users
    /\ IF user = AuthFailed \/ ~UserLoginView_permission(user)
       THEN response' = Reply(401, NoBody) /\ UNCHANGED tokens
       ELSE IF req.method \notin UserLoginView_methods
       THEN response' = Reply(405, NoBody) /\ UNCHANGED tokens
       ELSE IF req.data.username = Absent \/ req.data.password = Absent
       THEN response' = Reply(400, NoBody) /\ UNCHANGED tokens
       ELSE IF match = {}
       THEN response' = Reply(401, NoBody) /\ UNCHANGED tokens
       ELSE LET u == CHOOSE i \in match : TRUE IN
            /\ tokens' = tokens \cup {AccessToken(u)}
            /\ response' = Reply(200, TokenPairBody(u))

\* GET/PUT/PATCH api/auth/<profile>: RetrieveUpdateAPIView on request.user.
Profile(req) ==
    LET user == Authenticate(req.cred) IN
    /\ request' = req
    /\ UNCHANGED tokens
    /\ IF user = AuthFailed \/ ~UserProfileView_permission(user)
       THEN response' = Reply(401, NoBody) /\ UNCHANGED users
       ELSE IF req.method \notin UserProfileView_methods
       THEN response' = Reply(405, NoBody) /\ UNCHANGED users
       ELSE LET obj == get_object(req, user) IN
            IF obj.auth # "user"
            THEN \* AnonymousUser is no row of the user table.
                 response' = Reply(500, NoBody) /\ UNCHANGED users
            ELSE IF obj.id \notin Ids
            THEN response' = Reply(404, NoBody) /\ UNCHANGED users
            ELSE CASE req.method = "GET" ->
                   /\ response' = Reply(200, UserBody(obj.id))
                   /\ UNCHANGED users
              [] req.method \in {"PUT", "PATCH"} ->
                   IF ~UserProfileView_is_valid(req.method, req.data, {obj.id})
                   THEN response' = Reply(400, NoBody) /\ UNCHANGED users
                   ELSE /\ users' = [users EXCEPT ![obj.id] = Saved(users[obj.id], req.data)]
                        /\ response' = Reply(200, [kind |-> "user", id |-> obj.id,
                                                   username |-> users'[obj.id].username])
              [] req.method = "DELETE" ->
                   \* destroy, which RetrieveUpdateAPIView does not bind
                   /\ users' = [i \in Ids \ {obj.id} |-> users[i]]
                   /\ response' = Reply(204, NoBody)
              [] OTHER ->
                   /\ response' = Reply(405, NoBody)
                   /\ UNCHANGED users

(***************************************************************************)
(* config/urls.py: the routing table                                       *)
(***************************************************************************)
\* A request path (without its leading slash) is a sequence of pieces: the
\* separator, the words the routes are made of, and a letter "x" that
\* occurs in none of them.
Words == {"admin", "api", "auth", "books", "circulations", "fines", "schema", "redoc"}

Alphabet == Words \cup {"/", "x"}

Route(kind, route, target) == [kind |-> kind, route |-> route, target |-> target]

\* The table with the accounts and books modules crossed.
urlpatterns_crossed ==
    << Route("include", <<"admin", "/">>, "admin.site.urls"),
       Route("endpoint", <<"api", "/", "schema", "/">>, "schema"),
       Route("endpoint", <<>>, "swagger-ui"),
       Route("endpoint", <<"api", "/", "redoc", "/">>, "redoc"),
       Route("include", <<"api", "/", "auth", "/">>, "apps.books.urls"),
       Route("include", <<"api", "/", "books", "/">>, "apps.accounts.urls"),
       Route("include", <<"api", "/", "circulations", "/">>, "apps.circulations.urls"),
       Route("include", <<"api", "/", "fines", "/">>, "apps.fines.urls") >>

\* The table with the books module mounted on api/ instead of api/books/.
urlpatterns_overlap ==
    << Route("include", <<"admin", "/">>, "admin.site.urls"),
       Route("endpoint", <<"api", "/", "schema", "/">>, "schema"),
       Route("endpoint", <<>>, "swagger-ui"),
       Route("endpoint", <<"api", "/", "redoc", "/">>, "redoc"),
       Route("include", <<"api", "/", "auth", "/">>, "apps.accounts.urls"),
       Route("include", <<"api", "/">>, "apps.books.urls"),
       Route("include", <<"api", "/", "circulations", "/">>, "apps.circulations.urls"),
       Route("include", <<"api", "/", "fines", "/">>, "apps.fines.urls") >>

urlpatterns ==
    << Route("include", <<"admin", "/">>, "admin.site.urls"),
       Route("endpoint", <<"api", "/", "schema", "/">>, "schema"),
       Route("endpoint", <<>>, "swagger-ui"),
       Route("endpoint", <<"api", "/", "redoc", "/">>, "redoc"),
       Route("include", <<"api", "/", "auth", "/">>, "apps.accounts.urls"),
       Route("include", <<"api", "/", "books", "/">>, "apps.books.urls"),
       Route("include", <<"api", "/", "circulations", "/">>, "apps.circulations.urls"),
       Route("include", <<"api", "/", "fines", "/">>, "apps.fines.urls") >>

StartsWith(p, prefix) ==
    /\ Len(prefix) <= Len(p)
    /\ SubSeq(p, 1, Len(prefix)) = prefix

Strip(p, prefix) == SubSeq(p, Len(prefix) + 1, Len(p))

\* Every route taken as a prefix, as a regular expression without its end
\* anchor would be.
RouteMatches_prefix(r, p) == StartsWith(p, r.route)

\* path(route, view) matches the whole path; path(route, include(...)) and
\* path(route, admin.site.urls) match a prefix and pass the rest on.
RouteMatches(r, p) ==
    IF r.kind = "endpoint" THEN p = r.route ELSE StartsWith(p, r.route)

NotFound(sub, handed) ==
    [target |-> "404", rest |-> <<>>, handed |-> handed, sub |-> sub]

\* The resolver tries the patterns in order. An endpoint that matches is the
\* answer. An included module that matches gets the rest of the path; when it
\* has no route for the rest (sub = FALSE; the modules are not part of this
\* table) the resolver goes on with the next pattern. handed collects the
\* modules the path was handed to.
RECURSIVE ResolveFrom(_, _, _, _, _)
ResolveFrom(patterns, i, p, sub, handed) ==
    IF i > Len(patterns) THEN NotFound(sub, handed)
    ELSE LET r == patterns[i] IN
         IF ~RouteMatches(r, p) THEN ResolveFrom(patterns, i + 1, p, sub, handed)
         ELSE IF r.kind = "endpoint"
         THEN [target |-> r.target, rest |-> <<>>, handed |-> handed, sub |-> sub]
         ELSE LET h == handed \cup {[target |-> r.target, rest |-> Strip(p, r.route)]} IN
              IF sub THEN [target |-> r.target, rest |-> Strip(p, r.route), handed |-> h,
                           sub |-> sub]
              ELSE ResolveFrom(patterns, i + 1, p, sub, h)

Resolve(patterns, p, sub) == ResolveFrom(patterns, 1, p, sub, {})

Pending == [target |-> "pending", rest |-> <<>>, handed |-> {}, sub |-> FALSE]

SeqsUpTo(S, n) == UNION {[1..k -> S] : k \in 0..n}

Paths == SeqsUpTo(Alphabet, MaxPathLen)

\* The paths around the routes: a route, or nothing, followed by a few pieces.
Suffixes == SeqsUpTo({"/", "x", "auth"}, MaxSuffixLen)

RoutePaths ==
    {r \o s : r \in {urlpatterns[i].route : i \in DOMAIN urlpatterns}, s \in Suffixes}

Swapped(seq, i, j) ==
    [k \in DOMAIN seq |-> IF k = i THEN seq[j] ELSE IF k = j THEN seq[i] ELSE seq[k]]

(***************************************************************************)
(* Specifications                                                          *)
(***************************************************************************)
AccountsInit ==
    /\ users = <<>>
    /\ tokens = {}
    /\ request = Request("none", "GET", NoCred, NoId, NoData)
    /\ response = Reply(0, NoBody)

RouteIdle ==
    /\ order = urlpatterns
    /\ swaps = 0
    /\ resolved = Pending

Init ==
    /\ AccountsInit
    /\ RouteIdle
    /\ path = <<>>

RegisterStep ==
    \E method \in HttpMethods, cred \in Credentials :
        \E data \in PayloadsOf(method) :
            /\ Cardinality(Ids) < MaxUsers
            /\ Register(Request("register", method, cred, NoId, data))
            /\ UNCHANGED routeVars

LoginStep ==
    \E method \in HttpMethods, cred \in Credentials :
        \E data \in PayloadsOf(method) :
            /\ Login(Request("login", method, cred, NoId, data))
            /\ UNCHANGED routeVars

ProfileStep ==
    \E method \in HttpMethods, cred \in Credentials, pk \in {NoId} \cup {{i} : i \in Ids} :
        \E data \in PayloadsOf(method) :
            /\ Profile(Request("profile", method, cred, pk, data))
            /\ UNCHANGED routeVars

Next == RegisterStep \/ LoginStep \/ ProfileStep

Spec == Init /\ [][Next]_vars

\* URL dispatch of one request path by the table as written.
RouteInit ==
    /\ AccountsInit
    /\ RouteIdle
    /\ path \in Paths

ResolveStep ==
    /\ resolved = Pending
    /\ \E sub \in BOOLEAN : resolved' = Resolve(order, path, sub)
    /\ UNCHANGED <<path, order, swaps>>
    /\ UNCHANGED accountVars

RouteNext == ResolveStep

RouteSpec == RouteInit /\ [][RouteNext]_vars

\* URL dispatch by the table with its entries reordered.
PermInit ==
    /\ AccountsInit
    /\ RouteIdle
    /\ path \in RoutePaths

ReorderStep ==
    /\ resolved = Pending
    /\ swaps < MaxSwaps
    /\ \E i, j \in DOMAIN order : i < j /\ order' = Swapped(order, i, j)
    /\ swaps' = swaps + 1
    /\ UNCHANGED <<path, resolved>>
    /\ UNCHANGED accountVars

PermNext == ReorderStep \/ ResolveStep

PermSpec == PermInit /\ [][PermNext]_vars

(***************************************************************************)
(* Properties of the account views (specification Spec)                    *)
(***************************************************************************)
Unauthenticated(cred) == cred \in {NoCred, BadCred}

Count(S) == Cardinality(S)

\* C1: a GET, PUT or PATCH to the profile endpoint that carries no
\* authenticated user is answered 401 with no user record in the body, and
\* the step changes no user record.
C1_ProfileRequiresAuthentication ==
    [][(/\ request'.view = "profile"
        /\ request'.method \in {"GET", "PUT", "PATCH"}
        /\ Unauthenticated(request'.cred))
       => (/\ response'.status = 401
           /\ response'.body = NoBody
           /\ users' = users)]_vars

C1_Witness ==
    /\ request.view = "profile"
    /\ request.method = "PUT"
    /\ request.cred = NoCred
    /\ SerializerValid(request.data, NoId)
    /\ Ids # {}
    /\ response.status = 401

\* C2: a profile GET authenticated as A answers with A's record, and a
\* profile PUT or PATCH authenticated as A leaves the record of every other
\* user as it was, whatever record id the request names.
C2_ProfileIsOwnRecordOnly ==
    [][\A a \in Ids :
        (request'.view = "profile" /\ request'.cred = AccessToken(a) /\ a \in Ids')
        => (/\ request'.method = "GET"
               => (/\ response'.status = 200
                   /\ response'.body = [kind |-> "user", id |-> a,
                                        username |-> users[a].username])
            /\ request'.method \in {"PUT", "PATCH"}
               => (/\ Ids' = Ids
                   /\ \A b \in Ids \ {a} : users'[b] = users[b]))]_vars

C2_Witness ==
    /\ request.view = "profile"
    /\ request.method \in {"PUT", "PATCH"}
    /\ request.cred \in tokens
    /\ request.pk # NoId
    /\ request.pk # {request.cred.user}
    /\ request.pk \subseteq Ids
    /\ request.data.username # Absent
    /\ response.status = 200

\* C3: a registration POST without credentials and with a valid payload is
\* answered 201 and adds exactly one user, every user that existed keeping
\* its record.
C3_RegistrationCreatesUser ==
    [][(/\ request'.view = "register"
        /\ request'.method = "POST"
        /\ request'.cred = NoCred
        /\ SerializerValid(request'.data, NoId))
       => (/\ response'.status = 201
           /\ Ids \subseteq Ids'
           /\ Count(Ids') = Count(Ids) + 1
           /\ \A i \in Ids : users'[i] = users[i]
           /\ \E n \in Ids' \ Ids : users'[n].username = request'.data.username)]_vars

C3_Witness ==
    /\ request.view = "register"
    /\ request.method = "POST"
    /\ request.cred = NoCred
    /\ response.status = 201
    /\ Count(Ids) = 2

\* C4: a login POST without prior authentication that presents the username
\* and password of an existing user is answered with the access and refresh
\* token of that user, and no login request creates or changes a user.
C4_LoginReturnsTokenPair ==
    [][request'.view = "login"
       => (/\ users' = users
           /\ \A u \in Ids :
                (/\ request'.method = "POST"
                 /\ users[u].username = request'.data.username
                 /\ users[u].password = request'.data.password)
                => (/\ response'.status = 200
                    /\ response'.body = [kind |-> "tokens", access |-> AccessToken(u),
                                         refresh |-> RefreshToken(u)]
                    /\ AccessToken(u) \in tokens'))]_vars

C4_Witness ==
    /\ request.view = "login"
    /\ request.cred = NoCred
    /\ response.status = 200
    /\ response.body.kind = "tokens"
    /\ response.body.access.user = 2
    /\ Count(tokens) = 1

\* C7: a registration rejected for a validation error, a login rejected for
\* wrong credentials, a profile request rejected for an authentication
\* failure or an invalid update payload: each is answered with an error, and
\* every step that ends in an error response leaves the users (and the tokens
\* issued) as they were.
C7_ErrorsLeaveStateUnchanged ==
    [][/\ response'.status >= 400 => (users' = users /\ tokens' = tokens)
       /\ (/\ request'.view = "register" /\ request'.method = "POST"
           /\ ~SerializerValid(request'.data, NoId))
          => response'.status \in {400, 401}
       /\ (/\ request'.view = "login" /\ request'.method = "POST"
           /\ ~\E u \in Ids : /\ users[u].username = request'.data.username
                              /\ users[u].password = request'.data.password)
          => response'.status \in {400, 401}
       /\ (request'.view = "profile" /\ Unauthenticated(request'.cred))
          => response'.status = 401
       /\ (/\ request'.view = "profile" /\ request'.cred \in tokens
           /\ \/ request'.method = "PUT"
                 /\ ~SerializerValid(request'.data, {request'.cred.user})
              \/ request'.method = "PATCH"
                 /\ ~SerializerValidPartial(request'.data, {request'.cred.user}))
          => response'.status = 400]_vars

C7_Witness ==
    /\ request.view = "profile"
    /\ request.method = "PATCH"
    /\ request.cred \in tokens
    /\ request.data.username # Absent
    /\ response.status = 400

ProfileSucceeded ==
    /\ request.view = "profile"
    /\ response.status = 200
    /\ response.body.kind = "user"

\* C9: a profile request that succeeds with the record of user U comes
\* after a login that issued U's tokens, and a token is issued only by a
\* login answered 200 for a user that already existed; with no login so
\* far, no profile request has succeeded.
C9_ProfileImpliesPriorLogin ==
    /\ [](ProfileSucceeded
          => (/\ response.body.id \in Ids
              /\ AccessToken(response.body.id) \in tokens))
    /\ [](\A t \in tokens : t.kind = "access" /\ t.user \in Ids)
    /\ [][\A t \in tokens' \ tokens :
            /\ request'.view = "login"
            /\ response'.status = 200
            /\ response'.body.access = t
            /\ t.user \in Ids]_vars

C9_Witness ==
    /\ ProfileSucceeded
    /\ request.method = "GET"
    /\ Count(Ids) = 2
    /\ Count(tokens) = 1

(***************************************************************************)
(* Properties of the routing table (specifications RouteSpec, PermSpec)    *)
(***************************************************************************)
ApiModules ==
    { [route |-> <<"api", "/", "auth", "/">>, target |-> "apps.accounts.urls"],
      [route |-> <<"api", "/", "books", "/">>, target |-> "apps.books.urls"],
      [route |-> <<"api", "/", "circulations", "/">>, target |-> "apps.circulations.urls"],
      [route |-> <<"api", "/", "fines", "/">>, target |-> "apps.fines.urls"] }

\* C5: a path that starts with api/auth/, api/books/, api/circulations/ or
\* api/fines/ is handed to the module of that prefix, with the prefix
\* stripped, and to nothing else: it ends in that module, or nowhere when the
\* module has no route for the rest.
C5_DispatchByPrefix ==
    resolved # Pending =>
        \A m \in ApiModules :
            StartsWith(path, m.route) =>
                /\ resolved.handed = {[target |-> m.target, rest |-> Strip(path, m.route)]}
                /\ resolved.sub => (/\ resolved.target = m.target
                                    /\ resolved.rest = Strip(path, m.route))
                /\ ~resolved.sub => resolved.target = "404"

C5_Witness ==
    /\ resolved.target = "apps.accounts.urls"
    /\ path = <<"api", "/", "auth", "/", "x">>
    /\ resolved.rest = <<"x">>

\* C6: api/schema/, api/redoc/ and the root path resolve to the schema view,
\* the Redoc view and the Swagger UI, and nothing else does: the empty route
\* takes the empty path alone.
C6_DocumentationRoutesExact ==
    resolved # Pending =>
        /\ resolved.target = "schema" <=> path = <<"api", "/", "schema", "/">>
        /\ resolved.target = "redoc" <=> path = <<"api", "/", "redoc", "/">>
        /\ resolved.target = "swagger-ui" <=> path = <<>>

C6_Witness ==
    /\ path = <<>>
    /\ resolved.target = "swagger-ui"

Matching(patterns, p) == {i \in DOMAIN patterns : RouteMatches(patterns[i], p)}

\* C10: a path matches at most one of the eight patterns, the table in any
\* order resolves it as the table as written does, and a path that matches
\* none resolves to no view.
C10_OrderIndependent ==
    /\ Count(Matching(order, path)) <= 1
    /\ resolved # Pending =>
        /\ resolved = Resolve(urlpatterns, path, resolved.sub)
        /\ Matching(order, path) = {} => resolved.target = "404"

C10_Witness ==
    /\ order # urlpatterns
    /\ order[1].target = "apps.fines.urls"
    /\ order[2].target = "swagger-ui"
    /\ path = <<"api", "/", "books", "/", "x">>
    /\ resolved.target = "apps.books.urls"

====
